---- MODULE Spec2Model ----
(***************************************************************************)
(* Model of the parking-api ingestion worker (src/server.js).              *)
(*                                                                         *)
(* Each replica lists the pods of its namespace (getPodDetails), asks the  *)
(* OpenAPI for the total record count (fetchTotalDataCount), computes its  *)
(* own slice of 1..total (calculateRange), pulls the slice page by page    *)
(* (fetchParkingData), filters the rows by district and publishes the      *)
(* result to Kafka (sendToKafka).  processWork sequences these steps and   *)
(* startServer runs it once after the producer has connected.              *)
(*                                                                         *)
(* Four specifications share the definitions below:                        *)
(*   Spec       one process, from startServer to the end of its cycle;     *)
(*   SpecRange  calculateRange applied to inputs drawn from bounded sets;  *)
(*   SpecPeers  several replicas running discovery and range computation  *)
(*              against one pod listing and one total;                     *)
(*   SpecTopic  the messages of one producer over successive cycles.       *)
(***************************************************************************)
EXTENDS Integers, Sequences, FiniteSets, TLC

(***************************************************************************)
(* Bounds of the model.                                                    *)
(***************************************************************************)
\* small totals 0..MaxTotal are explored exhaustively
MaxTotal == 6
\* totals around k * MAX_BATCH_SIZE, k = 1..MaxPages, exercise the paging
MaxPages == 2
\* number of distinct pod names in the namespace
MaxPods == 3
\* calculateRange is applied to pod counts 1..MaxPeers in SpecRange
MaxPeers == 4
\* number of health probes answered in one run
MaxHealth == 1
\* number of work cycles of one producer whose messages reach the topic
MaxCycles == 2

(***************************************************************************)
(* Program constants.                                                      *)
(***************************************************************************)
MAX_BATCH_SIZE == 1000

\* JavaScript numbers that are not indices.  Math.ceil(totalData / podCount)
\* is Infinity for podCount = 0 < totalData and NaN for 0 / 0; both are
\* encoded outside the range of the indices the model reaches.
Infinity == 2000000000
NaN == -2000000000

IsNaN(x) == x = NaN

(***************************************************************************)
(* JavaScript arithmetic on indices, Infinity and NaN.                     *)
(***************************************************************************)
\* Math.ceil(a / b) for a >= 0, b >= 0
JsCeilDiv(a, b) ==
  IF b = 0 THEN (IF a = 0 THEN NaN ELSE Infinity)
  ELSE (a + b - 1) \div b

\* a * b for a finite a >= 0
JsMul(a, b) ==
  IF IsNaN(b) THEN NaN
  ELSE IF b = Infinity THEN (IF a = 0 THEN NaN ELSE Infinity)
  ELSE a * b

\* a + b for a finite b
JsAdd(a, b) ==
  IF IsNaN(a) THEN NaN
  ELSE IF a = Infinity THEN Infinity
  ELSE a + b

\* Math.min(a, b)
JsMin(a, b) ==
  IF IsNaN(a) \/ IsNaN(b) THEN NaN
  ELSE IF a <= b THEN a ELSE b

\* a <= b; every comparison with NaN is false
JsLe(a, b) == ~IsNaN(a) /\ ~IsNaN(b) /\ a <= b

(***************************************************************************)
(* calculateRange (src/server.js:121-127).                                 *)
(***************************************************************************)
\* faulty variant: the range starts at podIndex * rangeSize, without the + 1
calculateRangeNoOffset(totalData_, podIndex_, podCount_) ==
  LET rangeSize == JsCeilDiv(totalData_, podCount_)
  IN  [ startIndex |-> JsMul(podIndex_, rangeSize),
        endIndex   |-> JsMin(JsMul(podIndex_ + 1, rangeSize), totalData_) ]

\* faulty variant: the range size is rounded down instead of up
calculateRangeFloor(totalData_, podIndex_, podCount_) ==
  LET rangeSize == totalData_ \div podCount_
  IN  [ startIndex |-> JsAdd(JsMul(podIndex_, rangeSize), 1),
        endIndex   |-> JsMin(JsMul(podIndex_ + 1, rangeSize), totalData_) ]

calculateRange(totalData_, podIndex_, podCount_) ==
  LET rangeSize == JsCeilDiv(totalData_, podCount_)
  IN  [ startIndex |-> JsAdd(JsMul(podIndex_, rangeSize), 1),
        endIndex   |-> JsMin(JsMul(podIndex_ + 1, rangeSize), totalData_) ]

(***************************************************************************)
(* Pod names and the pod listing.                                          *)
(*                                                                         *)
(* A pod name is a sequence of collation ranks of its characters.  The     *)
(* k-th name is the binary numeral of k written with the ranks 1 and 2     *)
(* (like pod-1, pod-10, pod-11, pod-100): names of different lengths, some *)
(* a prefix of others, whose collation order is not the numeric order.     *)
(***************************************************************************)
RECURSIVE NameOf(_)
NameOf(k) == IF k <= 1 THEN <<2>> ELSE Append(NameOf(k \div 2), (k % 2) + 1)

PodNames == { NameOf(k) : k \in 1..MaxPods }

\* String.prototype.localeCompare on names: negative, zero or positive
RECURSIVE localeCompare(_, _)
localeCompare(a, b) ==
  IF a = <<>> /\ b = <<>> THEN 0
  ELSE IF a = <<>> THEN -1
  ELSE IF b = <<>> THEN 1
  ELSE IF Head(a) < Head(b) THEN -1
  ELSE IF Head(a) > Head(b) THEN 1
  ELSE localeCompare(Tail(a), Tail(b))

\* the comparator of pods.sort (src/server.js:45)
ComparePods(a, b) == localeCompare(a.name, b.name)

\* Array.prototype.sort is stable: x goes after every element not greater
RECURSIVE InsertSorted(_, _)
InsertSorted(sorted, x) ==
  IF sorted = <<>> THEN <<x>>
  ELSE IF ComparePods(Head(sorted), x) <= 0
       THEN <<Head(sorted)>> \o InsertSorted(Tail(sorted), x)
       ELSE <<x>> \o sorted

RECURSIVE SortPods(_)
SortPods(pods) ==
  IF pods = <<>> THEN <<>>
  ELSE InsertSorted(SortPods(SubSeq(pods, 1, Len(pods) - 1)), pods[Len(pods)])

\* Array.prototype.findIndex on names: zero-based, -1 when absent
FindIndex(pods, name) ==
  IF \E k \in 1..Len(pods) : pods[k].name = name
  THEN (CHOOSE k \in 1..Len(pods) :
          /\ pods[k].name = name
          /\ \A j \in 1..(k - 1) : pods[j].name # name) - 1
  ELSE -1

\* labels of a listed pod: app = parking-api, another app, or no labels at all
LabelKinds == {"parking-api", "other", "none"}

IsParkingApi(pod) == pod.labels = "parking-api"

\* what the orchestration API call can produce
K8sFailures == {"network", "auth", "credential", "malformed"}

\* the try block of getPodDetails throws: the request or a credential read
\* fails, the body has no items, or a listed pod has no labels
\* (pod.metadata.labels.app of undefined)
ListingThrows(resp) ==
  \/ resp.kind # "ok"
  \/ \E k \in 1..Len(resp.items) : resp.items[k].labels = "none"

\* response.data.items.filter(...).sort(...) (src/server.js:43-45)
PeerList(resp) == SortPods(SelectSeq(resp.items, IsParkingApi))

\* faulty variant: the result of findIndex is used as it is
NormalizeIndexKeepsSentinel(currentPodIndex) == currentPodIndex

\* the index normalisation of src/server.js:56
NormalizeIndex(currentPodIndex) ==
  IF currentPodIndex >= 0 THEN currentPodIndex ELSE 0

\* the value returned on the success path (src/server.js:54-57)
ListingResult(pods, self) ==
  [ podCount |-> Len(pods), podIndex |-> NormalizeIndex(FindIndex(pods, self)) ]

\* faulty variant: the catch block reports an empty peer list
DefaultDetailsNoPeer == [ podCount |-> 0, podIndex |-> 0 ]

\* faulty variant: the catch block reports a one-based index
DefaultDetailsOneBased == [ podCount |-> 1, podIndex |-> 1 ]

\* the value returned by the catch block (src/server.js:58-61)
DefaultDetails == [ podCount |-> 1, podIndex |-> 0 ]

\* getPodDetails for the process named self, given the API's response
getPodDetails(resp, self) ==
  IF ListingThrows(resp) THEN DefaultDetails
  ELSE ListingResult(PeerList(resp), self)

(***************************************************************************)
(* The upstream OpenAPI.                                                   *)
(*                                                                         *)
(* Record n of the data set carries the address Addresses[n] (cyclically). *)
(* An address is the sequence of its syllables, so that String.includes    *)
(* is a test for a contiguous sub-sequence.                                *)
(***************************************************************************)
Addresses ==
  << <<"Gang", "nam", "gu">>,
     <<"Jung", "gu">>,
     <<"Jung", "nang", "gu">>,
     <<"Gwan", "ak", "gu">>,
     <<"Seo", "cho", "gu">> >>

AddrOf(n) == Addresses[((n - 1) % Len(Addresses)) + 1]

\* one row of the data set; hasADDR is FALSE for a row without an ADDR field
Rec(n, withAddr) == [ idx |-> n, hasADDR |-> withAddr, ADDR |-> AddrOf(n) ]

\* the rows the API returns for GetParkingInfo/a/b
Row(a, b, withAddr) == [ k \in 1..(b - a + 1) |-> Rec(a + k - 1, withAddr) ]

\* totals the count query can report
Totals ==
  (0..MaxTotal) \cup {101}
    \cup { MAX_BATCH_SIZE * k + d : k \in 1..MaxPages, d \in 0..1 }

\* outcomes of the count query: a total, a body without list_total_count,
\* a result code other than INFO-000, a transport error
CountKinds == {"ok", "nocount", "marker", "transport"}

\* outcomes of a page query: rows, a body without row, rows lacking ADDR,
\* a result code other than INFO-000, a transport error
PageKinds == {"ok", "norow", "noaddr", "marker", "transport"}

\* response.data.GetParkingInfo?.list_total_count || 0 (src/server.js:71)
TotalOf(kind, total) == IF kind = "ok" THEN total ELSE 0

\* response.data.GetParkingInfo?.row || [] (src/server.js:96)
RowOf(kind, a, b) ==
  IF kind = "ok" THEN Row(a, b, TRUE)
  ELSE IF kind = "noaddr" THEN Row(a, b, FALSE)
  ELSE <<>>

\* faulty variant: the result code is not looked at
UpstreamThrowsTransportOnly(kind) == kind = "transport"

\* the check of RESULT.CODE and the transport: the call throws
UpstreamThrows(kind) == kind \in {"marker", "transport"}

(***************************************************************************)
(* The district filter of processWork (src/server.js:140-143).             *)
(***************************************************************************)
targetDistricts == << <<"Jung", "gu">>, <<"Gwan", "ak", "gu">> >>

\* faulty variant: the syllables of the term are looked for one by one
IncludesAnyOrder(addr, term) ==
  \A n \in 1..Len(term) : \E k \in 1..Len(addr) : addr[k] = term[n]

\* String.prototype.includes
Includes(addr, term) ==
  \E k \in 0..(Len(addr) - Len(term)) : SubSeq(addr, k + 1, k + Len(term)) = term

\* targetDistricts.some((district) => item.ADDR.includes(district))
MatchesDistrict(item) ==
  \E d \in 1..Len(targetDistricts) : Includes(item.ADDR, targetDistricts[d])

\* item.ADDR.includes raises a TypeError on a row without ADDR
FilterThrows(rows) == \E k \in 1..Len(rows) : ~rows[k].hasADDR

FilterDistricts(rows) == SelectSeq(rows, MatchesDistrict)

(***************************************************************************)
(* The loop head of fetchParkingData (src/server.js:82-85).                *)
(***************************************************************************)
\* faulty variant: the page is one index too wide
BatchEndTooWide(i_, endIndex_) == JsMin(JsAdd(i_, MAX_BATCH_SIZE), endIndex_)

\* batchEnd = Math.min(i + MAX_BATCH_SIZE - 1, endIndex)
BatchEnd(i_, endIndex_) == JsMin(JsAdd(i_, MAX_BATCH_SIZE - 1), endIndex_)

\* i += MAX_BATCH_SIZE
NextBatchStart(i_) == JsAdd(i_, MAX_BATCH_SIZE)

\* faulty variant: the loop runs up to endIndex + 1
LoopContinuesPastEnd(i_, endIndex_) == JsLe(i_, JsAdd(endIndex_, 1))

\* faulty variant: the loop variable is compared with the largest batch end
LoopContinuesToBatchEnd(i_, endIndex_) ==
  JsLe(i_, JsAdd(endIndex_, MAX_BATCH_SIZE - 1))

\* i <= endIndex
LoopContinues(i_, endIndex_) == JsLe(i_, endIndex_)

\* allData = allData.concat(row)
Accumulate(allData_, row) == allData_ \o row

(***************************************************************************)
(* sendToKafka: the message handed to producer.send (src/server.js:108-114)*)
(***************************************************************************)
MessageKey(name, data_) == << name, data_.startIndex, data_.endIndex >>

\* faulty variant: the message reports the number of rows as its endIndex
KafkaMessageRowCount(topic, name, data_) ==
  [ topic |-> topic, key |-> MessageKey(name, data_),
    value |-> [ data_ EXCEPT !.endIndex = Len(data_.data) ] ]

KafkaMessage(topic, name, data_) ==
  [ topic |-> topic, key |-> MessageKey(name, data_), value |-> data_ ]

\* the value sendToKafka returns once producer.send has settled: the function
\* has no return statement, neither after the try block nor in the catch
\* block (src/server.js:115-118)
SendToKafkaReturn(outcome) == "undefined"

(***************************************************************************)
(* State of one process.                                                   *)
(***************************************************************************)
VARIABLES
  pc,            \* where the process is: connecting, discovering, counting,
                 \* fetching, publishing, idle (cycle over), exited
  POD_NAME,      \* the identity of this process
  listening,     \* app.listen has been called
  exitCode,      \* the argument of process.exit, -1 while the process lives
  healthReplies, \* GET / requests answered with 200
  response,      \* the latest response of the orchestration API or OpenAPI
  podCount, podIndex, totalData, startIndex, endIndex,
  i,             \* the loop variable of fetchParkingData
  allData,       \* the accumulator of fetchParkingData
  pageRequests,  \* the page requests issued, as <<batchStart, batchEnd>>
  pageRows,      \* the rows each answered page request returned
  fetchState,    \* fetchParkingData: none, running, returned, threw
  data,          \* the value fetchParkingData returned
  filteredData,
  sent,          \* the messages handed to producer.send
  sendState,     \* producer.send: none, pending, ok, failed
  sendReturn,    \* what sendToKafka returned to processWork, none before
  errors         \* the functions whose catch block has logged an error

mainVars ==
  << pc, POD_NAME, listening, exitCode, healthReplies, response, podCount,
     podIndex, totalData, startIndex, endIndex, i, allData, pageRequests,
     pageRows, fetchState, data, filteredData, sent, sendState, sendReturn, errors >>

\* state of the specification of calculateRange on its own
VARIABLES
  rTotal,   \* the totalData argument
  rCount,   \* the podCount argument
  ranges    \* podIndex -> the range calculateRange returned for it

rangeVars == << rTotal, rCount, ranges >>

\* state of the specification of several replicas
VARIABLES
  peers,        \* the names of the running replicas
  members,      \* the pods of the namespace, as a set of [name, labels]
  sharedTotal,  \* the total every replica's count query reports
  peerPc,       \* name -> discovering, counting, done
  peerKind,     \* name -> the outcome of its listing request: none, ok, network
  peerOrder,    \* name -> the names of the sorted peer list it derived
  peerDetails,  \* name -> the result of its getPodDetails
  peerRange     \* name -> the range it computed

peerVars ==
  << peers, members, sharedTotal, peerPc, peerKind, peerOrder, peerDetails,
     peerRange >>

\* state of the specification of one producer's successive cycles
VARIABLES
  topicLog   \* the messages of this producer on the topic, oldest first

topicVars == << topicLog >>

NoResponse == [ api |-> "none", kind |-> "none", items |-> <<>>, total |-> 0 ]

K8sResponse(kind, items) ==
  [ api |-> "k8s", kind |-> kind, items |-> items, total |-> 0 ]

ApiResponse(api, kind, total) ==
  [ api |-> api, kind |-> kind, items |-> <<>>, total |-> total ]

\* the pod listings the orchestration API can return: pods with distinct
\* names, in any order, each with one of the label kinds
RECURSIVE ListingsOver(_)
ListingsOver(names) ==
  {<<>>} \cup
  UNION { { <<[name |-> n, labels |-> l]>> \o rest :
              l \in LabelKinds, rest \in ListingsOver(names \ {n}) } :
          n \in names }

K8sResponses ==
  { K8sResponse("ok", items) : items \in ListingsOver(PodNames) }
    \cup { K8sResponse(kind, <<>>) : kind \in K8sFailures }

MainInit ==
  /\ pc = "connecting"
  /\ POD_NAME \in PodNames
  /\ listening = FALSE
  /\ exitCode = -1
  /\ healthReplies = 0
  /\ response = NoResponse
  /\ podCount = 0
  /\ podIndex = 0
  /\ totalData = 0
  /\ startIndex = 0
  /\ endIndex = 0
  /\ i = 0
  /\ allData = <<>>
  /\ pageRequests = <<>>
  /\ pageRows = <<>>
  /\ fetchState = "none"
  /\ data = <<>>
  /\ filteredData = <<>>
  /\ sent = <<>>
  /\ sendState = "none"
  /\ sendReturn = "none"
  /\ errors = {}

(***************************************************************************)
(* startServer (src/server.js:159-173).                                    *)
(***************************************************************************)
\* producer.connect() resolves: processWork() runs up to its first await
\* (the pod listing is requested) and app.listen is called
ConnectOk ==
  /\ UNCHANGED << rangeVars, peerVars, topicVars >>
  /\ pc = "connecting"
  /\ pc' = "discovering"
  /\ listening' = TRUE
  /\ UNCHANGED << POD_NAME, exitCode, healthReplies, response, podCount,
                  podIndex, totalData, startIndex, endIndex, i, allData,
                  pageRequests, pageRows, fetchState, data, filteredData,
                  sent, sendState, sendReturn, errors >>

\* faulty variant: the error is logged and startServer goes on without the
\* connection
ConnectFailContinues ==
  /\ UNCHANGED << rangeVars, peerVars, topicVars >>
  /\ pc = "connecting"
  /\ pc' = "discovering"
  /\ listening' = TRUE
  /\ errors' = errors \cup {"startServer"}
  /\ UNCHANGED << POD_NAME, exitCode, healthReplies, response, podCount,
                  podIndex, totalData, startIndex, endIndex, i, allData,
                  pageRequests, pageRows, fetchState, data, filteredData,
                  sent, sendState, sendReturn >>

\* producer.connect() rejects: the error is logged and process.exit(1) runs
ConnectFail ==
  /\ UNCHANGED << rangeVars, peerVars, topicVars >>
  /\ pc = "connecting"
  /\ pc' = "exited"
  /\ exitCode' = 1
  /\ errors' = errors \cup {"startServer"}
  /\ UNCHANGED << POD_NAME, listening, healthReplies, response, podCount,
                  podIndex, totalData, startIndex, endIndex, i, allData,
                  pageRequests, pageRows, fetchState, data, filteredData,
                  sent, sendState, sendReturn >>

\* app.get("/") (src/server.js:175-177)
HealthCheck ==
  /\ UNCHANGED << rangeVars, peerVars, topicVars >>
  /\ listening
  /\ pc # "exited"
  /\ healthReplies < MaxHealth
  /\ healthReplies' = healthReplies + 1
  /\ UNCHANGED << pc, POD_NAME, listening, exitCode, response, podCount,
                  podIndex, totalData, startIndex, endIndex, i, allData,
                  pageRequests, pageRows, fetchState, data, filteredData,
                  sent, sendState, sendReturn, errors >>

(***************************************************************************)
(* processWork (src/server.js:129-157), one action per await.              *)
(***************************************************************************)
\* the catch block of processWork has run
CycleFailed == "processWork" \in errors

\* faulty variant: the exception is not caught and ends the process
CycleFailsFatal(thrower) ==
  /\ pc' = "exited"
  /\ errors' = errors \cup {thrower}

\* an exception raised in (and logged by) thrower reaches the catch block of
\* processWork, which logs it and ends the cycle
CycleFails(thrower) ==
  /\ pc' = "idle"
  /\ errors' = errors \cup {thrower, "processWork"}

\* fetchParkingData has returned rows for the range first..last: filter and,
\* if anything is left, sendToKafka up to its await of producer.send
AfterFetch(rows, first, last) ==
  /\ fetchState' = "returned"
  /\ data' = rows
  /\ IF FilterThrows(rows)
     THEN /\ CycleFails("processWork")
          /\ UNCHANGED << filteredData, sent, sendState, sendReturn >>
     ELSE /\ filteredData' = FilterDistricts(rows)
          /\ errors' = errors
          /\ IF Len(FilterDistricts(rows)) > 0
             THEN /\ sent' = Append(sent,
                        KafkaMessage("parking-topic", POD_NAME,
                          [ podName |-> POD_NAME, startIndex |-> first,
                            endIndex |-> last,
                            data |-> FilterDistricts(rows) ]))
                  /\ sendState' = "pending"
                  /\ sendReturn' = sendReturn
                  /\ pc' = "publishing"
             ELSE /\ pc' = "idle"
                  /\ UNCHANGED << sent, sendState, sendReturn >>

\* fetchParkingData at the head of its loop with loop variable next:
\* request the next page, or return the accumulated rows
LoopHead(next, rows, first, last) ==
  /\ i' = next
  /\ allData' = rows
  /\ IF LoopContinues(next, last)
     THEN /\ pageRequests' = Append(pageRequests, <<next, BatchEnd(next, last)>>)
          /\ fetchState' = "running"
          /\ pc' = "fetching"
          /\ UNCHANGED << data, filteredData, sent, sendState, sendReturn, errors >>
     ELSE /\ pageRequests' = pageRequests
          /\ AfterFetch(rows, first, last)

\* the pod listing request settles: getPodDetails returns (after logging the
\* error, if its try block threw) and the count query is issued
GetPodDetailsReturn ==
  /\ UNCHANGED << rangeVars, peerVars, topicVars >>
  /\ pc = "discovering"
  /\ \E resp \in K8sResponses :
       /\ response' = resp
       /\ podCount' = getPodDetails(resp, POD_NAME).podCount
       /\ podIndex' = getPodDetails(resp, POD_NAME).podIndex
       /\ errors' = IF ListingThrows(resp) THEN errors \cup {"getPodDetails"}
                    ELSE errors
  /\ pc' = "counting"
  /\ UNCHANGED << POD_NAME, listening, exitCode, healthReplies, totalData,
                  startIndex, endIndex, i, allData, pageRequests, pageRows,
                  fetchState, data, filteredData, sent, sendState, sendReturn >>

\* the count query settles: fetchTotalDataCount returns or throws; on return
\* the range is computed and fetchParkingData is entered
FetchTotalDataCountReturn ==
  /\ UNCHANGED << rangeVars, peerVars, topicVars >>
  /\ pc = "counting"
  /\ \E kind \in CountKinds, total \in Totals :
       /\ kind # "ok" => total = 0
       /\ response' = ApiResponse("count", kind, total)
       /\ IF UpstreamThrows(kind)
          THEN /\ CycleFails("fetchTotalDataCount")
               /\ UNCHANGED << totalData, startIndex, endIndex, i, allData,
                               pageRequests, fetchState, data, filteredData,
                               sent, sendState, sendReturn >>
          ELSE /\ totalData' = TotalOf(kind, total)
               /\ startIndex' =
                    calculateRange(TotalOf(kind, total), podIndex, podCount).startIndex
               /\ endIndex' =
                    calculateRange(TotalOf(kind, total), podIndex, podCount).endIndex
               /\ LoopHead(startIndex', <<>>, startIndex', endIndex')
  /\ UNCHANGED << POD_NAME, listening, exitCode, healthReplies, podCount,
                  podIndex, pageRows >>

\* a page query settles: the rows are accumulated and the loop goes on, or
\* fetchParkingData throws
PageReturn ==
  /\ UNCHANGED << rangeVars, peerVars, topicVars >>
  /\ pc = "fetching"
  /\ \E kind \in PageKinds :
       /\ response' = ApiResponse("page", kind, 0)
       /\ IF UpstreamThrows(kind)
          THEN /\ CycleFails("fetchParkingData")
               /\ fetchState' = "threw"
               /\ UNCHANGED << i, allData, pageRequests, pageRows, data,
                               filteredData, sent, sendState, sendReturn >>
          ELSE /\ pageRows' = Append(pageRows, RowOf(kind, i, BatchEnd(i, endIndex)))
               /\ LoopHead(NextBatchStart(i),
                           Accumulate(allData, RowOf(kind, i, BatchEnd(i, endIndex))),
                           startIndex, endIndex)
  /\ UNCHANGED << POD_NAME, listening, exitCode, healthReplies, podCount,
                  podIndex, totalData, startIndex, endIndex >>

\* producer.send settles: sendToKafka logs the outcome and processWork ends
SendReturn ==
  /\ UNCHANGED << rangeVars, peerVars, topicVars >>
  /\ pc = "publishing"
  /\ \E outcome \in {"ok", "failed"} :
       /\ sendState' = outcome
       /\ sendReturn' = SendToKafkaReturn(outcome)
       /\ errors' = IF outcome = "failed" THEN errors \cup {"sendToKafka"}
                    ELSE errors
  /\ pc' = "idle"
  /\ UNCHANGED << POD_NAME, listening, exitCode, healthReplies, response,
                  podCount, podIndex, totalData, startIndex, endIndex, i,
                  allData, pageRequests, pageRows, fetchState, data,
                  filteredData, sent >>

MainNext ==
  \/ ConnectOk
  \/ ConnectFail
  \/ HealthCheck
  \/ GetPodDetailsReturn
  \/ FetchTotalDataCountReturn
  \/ PageReturn
  \/ SendReturn

(***************************************************************************)
(* calculateRange on its own: the inputs are drawn from bounded sets and   *)
(* the function is applied to one index at a time, in any order, also to   *)
(* indices beyond the pod count.                                           *)
(***************************************************************************)
RangeIndices == 0..(MaxPeers + 1)

RangeIdle ==
  /\ rTotal = 0
  /\ rCount = 1
  /\ ranges = <<>>

RangeInit ==
  /\ rTotal \in Totals
  /\ rCount \in 1..MaxPeers
  /\ ranges = <<>>

ComputeRange ==
  /\ UNCHANGED << mainVars, peerVars, topicVars >>
  /\ \E idx \in RangeIndices \ DOMAIN ranges :
       /\ ranges' = [ x \in DOMAIN ranges \cup {idx} |->
                        IF x = idx THEN calculateRange(rTotal, idx, rCount)
                        ELSE ranges[x] ]
       /\ UNCHANGED << rTotal, rCount >>

(***************************************************************************)
(* Several replicas against one namespace and one data set.  Every replica *)
(* runs getPodDetails and then calculateRange on its own; each one's       *)
(* listing request may fail, and the API may list the pods in any order.   *)
(***************************************************************************)
PeersIdle ==
  /\ peers = {}
  /\ members = {}
  /\ sharedTotal = 0
  /\ peerPc = <<>>
  /\ peerKind = <<>>
  /\ peerOrder = <<>>
  /\ peerDetails = <<>>
  /\ peerRange = <<>>

\* every arrangement of a set of pods as a list
RECURSIVE Orderings(_)
Orderings(pods) ==
  IF pods = {} THEN {<<>>}
  ELSE UNION { { <<m>> \o rest : rest \in Orderings(pods \ {m}) } : m \in pods }

\* the replicas carry the role label; the other pods of the namespace carry
\* another label or none
Namespaces(running) ==
  { [ name : running, labels : {"parking-api"} ] \cup extra :
      extra \in { e \in SUBSET [ name : PodNames \ running,
                                 labels : {"other", "none"} ] :
                    \A x, y \in e : x.name = y.name => x = y } }

NamesOf(pods) == [ k \in 1..Len(pods) |-> pods[k].name ]

PeersInit ==
  /\ peers \in (SUBSET PodNames) \ {{}}
  /\ members \in Namespaces(peers)
  /\ sharedTotal \in Totals
  /\ peerPc = [ p \in peers |-> "discovering" ]
  /\ peerKind = [ p \in peers |-> "none" ]
  /\ peerOrder = [ p \in peers |-> <<>> ]
  /\ peerDetails = [ p \in peers |-> [ podCount |-> 0, podIndex |-> 0 ] ]
  /\ peerRange = [ p \in peers |-> [ startIndex |-> 0, endIndex |-> 0 ] ]

\* replica p's listing request settles and its getPodDetails returns; the
\* failures of the request are all handled alike, one stands for them
PeerDiscover ==
  /\ UNCHANGED << mainVars, rangeVars, topicVars >>
  /\ \E p \in peers :
    /\ peerPc[p] = "discovering"
    /\ \E resp \in { K8sResponse("ok", items) : items \in Orderings(members) }
                     \cup { K8sResponse("network", <<>>) } :
         /\ peerKind' = [ peerKind EXCEPT ![p] = resp.kind ]
         /\ peerOrder' = [ peerOrder EXCEPT ![p] =
                             IF ListingThrows(resp) THEN <<>>
                             ELSE NamesOf(PeerList(resp)) ]
         /\ peerDetails' = [ peerDetails EXCEPT ![p] = getPodDetails(resp, p) ]
    /\ peerPc' = [ peerPc EXCEPT ![p] = "counting" ]
    /\ UNCHANGED << peers, members, sharedTotal, peerRange >>

\* replica p's count query returns the shared total and p computes its range
PeerRange ==
  /\ UNCHANGED << mainVars, rangeVars, topicVars >>
  /\ \E p \in peers :
    /\ peerPc[p] = "counting"
    /\ peerRange' = [ peerRange EXCEPT ![p] =
                        calculateRange(sharedTotal, peerDetails[p].podIndex,
                                       peerDetails[p].podCount) ]
    /\ peerPc' = [ peerPc EXCEPT ![p] = "done" ]
    /\ UNCHANGED << peers, members, sharedTotal, peerKind, peerOrder,
                    peerDetails >>

(***************************************************************************)
(* Successive work cycles of one producer (the process is restarted under  *)
(* the same pod name).  Each cycle computes a range, fetches it without an *)
(* error and hands its message to sendToKafka; only what the topic keeps   *)
(* is carried from one cycle to the next.                                  *)
(***************************************************************************)
TopicIdle == topicLog = <<>>

\* the message of a cycle that computed the range r and fetched all its rows
CycleMessage(name, r) ==
  KafkaMessage("parking-topic", name,
    [ podName |-> name, startIndex |-> r.startIndex, endIndex |-> r.endIndex,
      data |-> FilterDistricts(Row(r.startIndex, r.endIndex, TRUE)) ])

PublishCycle ==
  /\ UNCHANGED << mainVars, rangeVars, peerVars >>
  /\ Len(topicLog) < MaxCycles
  /\ \E total \in 0..MaxTotal, count \in 1..MaxPeers :
       \E idx \in 0..(count - 1) :
         /\ Len(CycleMessage(POD_NAME, calculateRange(total, idx, count)).value.data) > 0
         /\ topicLog' = Append(topicLog,
              CycleMessage(POD_NAME, calculateRange(total, idx, count)))

(***************************************************************************)
(* The specifications.                                                     *)
(***************************************************************************)
vars == << mainVars, rangeVars, peerVars, topicVars >>

\* the process before startServer has done anything
MainIdle ==
  /\ MainInit
  /\ POD_NAME = NameOf(1)

Init == MainInit /\ RangeIdle /\ PeersIdle /\ TopicIdle

Next == MainNext

Spec == Init /\ [][Next]_vars

InitRange == MainIdle /\ RangeInit /\ PeersIdle /\ TopicIdle

NextRange == ComputeRange

SpecRange == InitRange /\ [][NextRange]_vars

InitPeers == MainIdle /\ RangeIdle /\ PeersInit /\ TopicIdle

NextPeers ==
  \/ PeerDiscover
  \/ PeerRange

SpecPeers == InitPeers /\ [][NextPeers]_vars

InitTopic == MainInit /\ RangeIdle /\ PeersIdle /\ TopicIdle

NextTopic == PublishCycle

SpecTopic == InitTopic /\ [][NextTopic]_vars

(***************************************************************************)
(* Properties of calculateRange (checked under SpecRange).                 *)
(***************************************************************************)
\* the indices of a range; empty when startIndex > endIndex
IndexSet(r) == r.startIndex..r.endIndex

\* the number of indices of a range
RangeLen(r) == IF r.endIndex >= r.startIndex THEN r.endIndex - r.startIndex + 1 ELSE 0

\* the pod indices 0..podCount-1
PodIndices == 0..(rCount - 1)

AllComputed == PodIndices \subseteq DOMAIN ranges

\* C1: for every total >= 0 and pod count >= 1 the ranges of the indices
\* 0..podCount-1 are pairwise disjoint and their union is exactly 1..total.
C1_RangesPartitionTotal ==
  /\ \A a, b \in PodIndices \cap DOMAIN ranges :
       a # b => IndexSet(ranges[a]) \cap IndexSet(ranges[b]) = {}
  /\ AllComputed =>
       UNION { IndexSet(ranges[k]) : k \in PodIndices } = 1..rTotal

\* C1 witness: total 101 split over three pods, all three ranges computed
C1_Witness ==
  /\ rTotal = 101
  /\ rCount = 3
  /\ AllComputed
  /\ ranges[0] = [ startIndex |-> 1, endIndex |-> 34 ]
  /\ ranges[1] = [ startIndex |-> 35, endIndex |-> 68 ]
  /\ ranges[2] = [ startIndex |-> 69, endIndex |-> 101 ]

\* C2 as stated: every range of an index below podCount-1 has length exactly
\* ceil(total / podCount); only the range of index podCount-1 may be shorter.
C2_AllButLastIndexFull ==
  \A k \in PodIndices \cap DOMAIN ranges :
    k < rCount - 1 => RangeLen(ranges[k]) = JsCeilDiv(rTotal, rCount)

\* C2 amended: no range is longer than ceil(total / podCount), and a range
\* shorter than that is followed by empty ranges only: every range before the
\* last non-empty one has length exactly ceil(total / podCount).
C2_OnlyLastActiveShort ==
  \A k \in PodIndices \cap DOMAIN ranges :
    /\ RangeLen(ranges[k]) <= JsCeilDiv(rTotal, rCount)
    /\ RangeLen(ranges[k]) < JsCeilDiv(rTotal, rCount) =>
         \A j \in PodIndices \cap DOMAIN ranges :
           j > k => RangeLen(ranges[j]) = 0

\* C2 witness: total 5 over four pods; index 2 is the last non-empty range,
\* it is shorter than ceil(5 / 4) = 2 and index 3 is empty
C2_Witness ==
  /\ rTotal = 5
  /\ rCount = 4
  /\ AllComputed
  /\ RangeLen(ranges[1]) = 2
  /\ RangeLen(ranges[2]) = 1
  /\ RangeLen(ranges[3]) = 0

\* C8: for an index at or beyond the pod count calculateRange returns the
\* range of the last pod, index podCount-1 (the index is clamped).
C8_IndexClampedToLastPod ==
  \A k \in DOMAIN ranges :
    (k >= rCount /\ (rCount - 1) \in DOMAIN ranges) =>
      ranges[k] = ranges[rCount - 1]

(***************************************************************************)
(* Properties of several replicas (checked under SpecPeers).               *)
(***************************************************************************)
AllPeersListed ==
  \A p \in peers : peerPc[p] = "done" /\ peerKind[p] = "ok"

PeersAgreeAndPartition ==
  /\ \A p, q \in peers : peerOrder[p] = peerOrder[q]
  /\ \A p, q \in peers :
       p # q => peerDetails[p].podIndex # peerDetails[q].podIndex
  /\ \A p, q \in peers :
       p # q => IndexSet(peerRange[p]) \cap IndexSet(peerRange[q]) = {}
  /\ UNION { IndexSet(peerRange[p]) : p \in peers } = 1..sharedTotal

\* C3: replicas with distinct names that each receive the same pod listing
\* (it contains all of them, in any order) and the same total derive the
\* same peer order and distinct indices, and their ranges are pairwise
\* disjoint and cover 1..total.
C3_IndependentPeersPartition == AllPeersListed => PeersAgreeAndPartition

\* the partition does hold when every listed pod carries labels
PeersPartitionWhenAllLabelled ==
  (AllPeersListed /\ \A m \in members : m.labels # "none")
    => PeersAgreeAndPartition

(***************************************************************************)
(* Properties of one process (checked under Spec).                         *)
(***************************************************************************)
\* a > b; every comparison with NaN is false
JsGt(a, b) == ~IsNaN(a) /\ ~IsNaN(b) /\ a > b

\* the count query has been answered without an error
CountSucceeded == fetchState # "none"

\* C4: with total 0 calculateRange returns an empty range for every index and
\* every pod count >= 1, and the cycle then issues no page request and ends
\* without failing.
C4_ZeroTotalIsNoOp ==
  /\ \A idx \in RangeIndices, count \in 1..MaxPeers :
       calculateRange(0, idx, count).startIndex
         > calculateRange(0, idx, count).endIndex
  /\ (CountSucceeded /\ totalData = 0) =>
       /\ podCount >= 1 => JsGt(startIndex, endIndex)
       /\ pageRequests = <<>>
       /\ fetchState = "returned"
       /\ data = <<>>
       /\ pc = "idle"
       /\ ~CycleFailed

\* C4 witness: a cycle that found two peers and a total of 0 has ended
C4_Witness ==
  /\ pc = "idle"
  /\ response.api = "count"
  /\ response.kind = "ok"
  /\ totalData = 0
  /\ podCount = 2
  /\ podIndex = 1
  /\ startIndex = 1
  /\ endIndex = 0
  /\ pageRequests = <<>>
  /\ ~CycleFailed

\* the orchestration API call failed: the request, a credential read, a body
\* without items, or a listed pod without labels
ApiCallFailed(resp) ==
  \/ resp.kind \in {"network", "auth", "credential", "malformed"}
  \/ \E k \in DOMAIN resp.items : resp.items[k].labels = "none"

\* C5: when the orchestration API call fails in any way, getPodDetails does
\* not raise; it returns podCount = 1 and podIndex = 0 and the cycle goes on
\* to the count query and the range computation (for one pod at index 0).
C5_DirectoryFailureDegradesToOnePeer ==
  /\ (response.api = "k8s" /\ ApiCallFailed(response)) =>
       /\ "getPodDetails" \in errors
       /\ podCount = 1
       /\ podIndex = 0
       /\ pc = "counting"
       /\ ~CycleFailed
  /\ ("getPodDetails" \in errors /\ CountSucceeded) =>
       /\ podCount = 1
       /\ podIndex = 0
       /\ startIndex = 1
       /\ endIndex = totalData

\* C5 witness: the listing held a pod without labels, and the cycle has gone
\* on to fetch the whole range 1..101
C5_Witness ==
  /\ "getPodDetails" \in errors
  /\ fetchState = "returned"
  /\ totalData = 101
  /\ startIndex = 1
  /\ endIndex = 101
  /\ Len(pageRequests) = 1

\* C5 witness, at the return of getPodDetails
C5_WitnessAtReturn ==
  /\ response.api = "k8s"
  /\ response.kind = "ok"
  /\ \E k \in DOMAIN response.items : response.items[k].labels = "none"
  /\ pc = "counting"
  /\ podCount = 1

\* getPodDetails has returned
DetailsReturned == pc \notin {"connecting", "discovering", "exited"}

\* C6: every result of getPodDetails, on every path, satisfies
\* podCount >= 1 and 0 <= podIndex < podCount.
C6_DetailsWithinBounds ==
  DetailsReturned => (podCount >= 1 /\ 0 <= podIndex /\ podIndex < podCount)

\* this process is not among the listed pods that carry the role label
SelfAbsent(resp) ==
  ~\E k \in DOMAIN resp.items :
     /\ resp.items[k].name = POD_NAME
     /\ resp.items[k].labels = "parking-api"

\* C7: when the listing succeeds but this process is absent from the peer
\* list, getPodDetails returns podIndex = 0; no negative index is returned
\* or handed to calculateRange.
C7_AbsentSelfGetsIndexZero ==
  /\ (response.api = "k8s" /\ ~ApiCallFailed(response) /\ SelfAbsent(response))
       => podIndex = 0
  /\ podIndex >= 0

\* C7 witness: two other pods are listed as peers, this process is not
C7_Witness ==
  /\ response.api = "k8s"
  /\ ~ApiCallFailed(response)
  /\ SelfAbsent(response)
  /\ pc = "counting"
  /\ podCount = 2
  /\ podIndex = 0

\* C9: fetchParkingData(start, end) with start > end issues no request and
\* returns an empty sequence.
C9_EmptyRangeFetchesNothing ==
  (CountSucceeded /\ JsGt(startIndex, endIndex)) =>
    /\ pageRequests = <<>>
    /\ fetchState = "returned"
    /\ data = <<>>

\* C9 witness: index 2 of three pods with a total of 1 has the range 3..1
C9_Witness ==
  /\ fetchState = "returned"
  /\ startIndex = 3
  /\ endIndex = 1
  /\ pageRequests = <<>>
  /\ data = <<>>

RECURSIVE Flatten(_)
Flatten(rows) == IF rows = <<>> THEN <<>> ELSE Head(rows) \o Flatten(Tail(rows))

\* C10: for start <= end and all pages succeeding, fetchParkingData issues
\* exactly ceil((end - start + 1) / MAX_BATCH_SIZE) page requests, one at a
\* time in ascending order; each page is at most MAX_BATCH_SIZE wide, the
\* pages are adjacent, the first begins at start, the last ends at end, and
\* the result is the page results concatenated in request order.
C10_PagesTileTheRange ==
  /\ Len(pageRequests) \in {Len(pageRows), Len(pageRows) + 1}
  /\ fetchState = "running" => Len(pageRequests) = Len(pageRows) + 1
  /\ \A k \in DOMAIN pageRequests :
       /\ pageRequests[k][1] <= pageRequests[k][2]
       /\ pageRequests[k][2] - pageRequests[k][1] + 1 <= MAX_BATCH_SIZE
       /\ k = 1 => pageRequests[k][1] = startIndex
       /\ k > 1 => pageRequests[k][1] = pageRequests[k - 1][2] + 1
       /\ pageRequests[k][2] <= endIndex
  /\ (fetchState = "returned" /\ JsLe(startIndex, endIndex)) =>
       /\ Len(pageRequests)
            = (endIndex - startIndex + MAX_BATCH_SIZE) \div MAX_BATCH_SIZE
       /\ Len(pageRows) = Len(pageRequests)
       /\ pageRequests[Len(pageRequests)][2] = endIndex
       /\ data = Flatten(pageRows)

\* C10 witness: the range 1..2001 was fetched in three pages
C10_Witness ==
  /\ fetchState = "returned"
  /\ startIndex = 1
  /\ endIndex = 2001
  /\ pageRequests = << <<1, 1000>>, <<1001, 2000>>, <<2001, 2001>> >>
  /\ Len(data) = 2001
  /\ \A k \in DOMAIN data : data[k].idx = k

\* C11: if a page request returns a non-success marker or fails in
\* transport, the whole fetchParkingData call fails: no page after the
\* failing one is requested and no rows of earlier pages reach the caller.
C11_PageFailureFailsWholeFetch ==
  /\ (response.api = "page" /\ response.kind \in {"marker", "transport"}) =>
       fetchState = "threw"
  /\ fetchState = "threw" =>
       /\ Len(pageRequests) = Len(pageRows) + 1
       /\ data = <<>>
       /\ filteredData = <<>>
       /\ sent = <<>>
       /\ pc = "idle"
       /\ "fetchParkingData" \in errors
       /\ CycleFailed

\* C11 witness: the first page of 1..2001 brought 1000 rows, the second page
\* came back with an error marker
C11_Witness ==
  /\ fetchState = "threw"
  /\ response.kind = "marker"
  /\ pageRequests = << <<1, 1000>>, <<1001, 2000>> >>
  /\ Len(pageRows) = 1
  /\ Len(allData) = 1000
  /\ data = <<>>
  /\ sent = <<>>

\* C12: no failure inside a work cycle (count query, page fetch, filter,
\* publish) ends the process: processWork settles without raising, and the
\* process stays alive and keeps serving the health endpoint.
C12_CycleFailureIsContained ==
  (CycleFailed \/ "sendToKafka" \in errors) =>
    /\ pc = "idle"
    /\ exitCode = -1
    /\ listening
    /\ healthReplies < MaxHealth => ENABLED HealthCheck

\* C12 witness: the cycle failed in the filter and a health probe was
\* answered afterwards
C12_Witness ==
  /\ CycleFailed
  /\ errors = {"processWork"}
  /\ fetchState = "returned"
  /\ pc = "idle"
  /\ exitCode = -1
  /\ healthReplies = 1

\* the cycle has ended without an error
CycleCompleted ==
  /\ pc = "idle"
  /\ fetchState = "returned"
  /\ errors \cap {"processWork", "sendToKafka"} = {}

\* C13: every work cycle that completes without error sends exactly one
\* message to the topic, also when its filtered list or its range is empty.
C13_OneMessagePerCompletedCycle ==
  CycleCompleted => Len(sent) = 1

\* C14: when the send fails, sendToKafka returns an outcome that differs from
\* the one it returns on success, and the cycle makes no second send attempt.
C14_SendFailureIsReported ==
  sendState = "failed" =>
    /\ sendReturn # SendToKafkaReturn("ok")
    /\ Len(sent) = 1
    /\ pc = "idle"

C16_RangeNeverEmpty ==
  \A k \in PodIndices \cap DOMAIN ranges :
    ranges[k].startIndex >= 1 /\ ranges[k].endIndex >= ranges[k].startIndex

\* C16 amended: every such range has startIndex >= 1 and endIndex <= total,
\* and endIndex >= startIndex exactly when podIndex * ceil(total / podCount)
\* < total; otherwise the range is empty (startIndex > endIndex).
C16_RangeWellFormedOrEmpty ==
  \A k \in PodIndices \cap DOMAIN ranges :
    /\ ranges[k].startIndex >= 1
    /\ ranges[k].endIndex <= rTotal
    /\ (ranges[k].endIndex >= ranges[k].startIndex)
         <=> (k * JsCeilDiv(rTotal, rCount) < rTotal)

\* C16 witness: of two pods sharing a total of 1, index 0 gets 1..1 and
\* index 1 gets the empty range 2..1
C16_Witness ==
  /\ rTotal = 1
  /\ rCount = 2
  /\ AllComputed
  /\ ranges[0] = [ startIndex |-> 1, endIndex |-> 1 ]
  /\ ranges[1] = [ startIndex |-> 2, endIndex |-> 1 ]

(***************************************************************************)
(* Properties of the messages (C17 under SpecTopic, the others under Spec).*)
(***************************************************************************)
\* C17: the message key carries the producer, the range and a unique or
\* monotonic disambiguator: two messages of one producer for the same range
\* sent in two different cycles have different keys.
C17_KeysDifferAcrossCycles ==
  \A a, b \in DOMAIN topicLog : a # b => topicLog[a].key # topicLog[b].key

\* address addr holds the syllables of term at consecutive positions
HoldsTerm(addr, term) ==
  \E off \in 0..(Len(addr) - Len(term)) :
    \A n \in 1..Len(term) : addr[off + n] = term[n]

\* the address of record r holds one of the two target districts
InTargetDistrict(r) ==
  \/ HoldsTerm(r.ADDR, <<"Jung", "gu">>)
  \/ HoldsTerm(r.ADDR, <<"Gwan", "ak", "gu">>)

\* the filter has run to its end
Filtered == fetchState = "returned" /\ ~CycleFailed

\* C18: the filter returns exactly the fetched records whose address holds
\* at least one target term, in their original relative order.
C18_FilterKeepsExactlyMatches ==
  Filtered =>
    /\ { filteredData[k] : k \in DOMAIN filteredData }
         = { r \in { data[j] : j \in DOMAIN data } : InTargetDistrict(r) }
    /\ \A k \in DOMAIN filteredData :
         k > 1 => filteredData[k - 1].idx < filteredData[k].idx
    /\ \A j \in DOMAIN data : j > 1 => data[j - 1].idx < data[j].idx

\* C18 witness: records 1..6 were fetched; 2 (Jung-gu) and 4 (Gwanak-gu) are
\* kept, 3 (Jungnang-gu) is not
C18_Witness ==
  /\ Filtered
  /\ Len(data) = 6
  /\ Len(filteredData) = 2
  /\ filteredData[1].idx = 2
  /\ filteredData[2].idx = 4

\* C19: a send is attempted only after the count query and every page
\* request of the computed range have succeeded; a cycle in which one of
\* them fails sends nothing, and the range in a sent message is the range
\* computed in that cycle.
C19_SendOnlyAfterCompleteFetch ==
  /\ errors \cap {"fetchTotalDataCount", "fetchParkingData"} # {} => sent = <<>>
  /\ (response.kind \in {"marker", "transport"}) => sent = <<>>
  /\ sent # <<>> =>
       /\ Len(sent) = 1
       /\ fetchState = "returned"
       /\ Len(pageRows) = Len(pageRequests)
       /\ sent[1].value.startIndex = startIndex
       /\ sent[1].value.endIndex = endIndex
       /\ sent[1].value.startIndex
            = calculateRange(totalData, podIndex, podCount).startIndex
       /\ sent[1].value.endIndex
            = calculateRange(totalData, podIndex, podCount).endIndex
       /\ sent[1].value.data = filteredData

\* C19 witness: a single pod fetched 1..2000 in two pages and its message has
\* been handed to the producer
C19_Witness ==
  /\ pc = "publishing"
  /\ Len(sent) = 1
  /\ pageRequests = << <<1, 1000>>, <<1001, 2000>> >>
  /\ Len(pageRows) = 2
  /\ sent[1].value.startIndex = 1
  /\ sent[1].value.endIndex = 2000
  /\ Len(sent[1].value.data) > 0

(***************************************************************************)
(* Replicas with failing directory queries (checked under SpecPeers).      *)
(***************************************************************************)
AllPeersDone == \A p \in peers : peerPc[p] = "done"

\* C20: when some replicas' directory queries fail while the others see the
\* full peer set and all see the same total, each degraded replica computes
\* the whole range 1..total, so the union of all ranges still covers
\* 1..total: overlaps may appear, gaps do not.
C20_DegradedPeersLeaveNoGap ==
  /\ \A p \in peers :
       (peerPc[p] = "done" /\ peerKind[p] = "network") =>
         peerRange[p] = [ startIndex |-> 1, endIndex |-> sharedTotal ]
  /\ AllPeersDone =>
       UNION { IndexSet(peerRange[p]) : p \in peers } = 1..sharedTotal

\* C20 witness: of three replicas sharing 101 records one is degraded and
\* takes 1..101, overlapping the slices of the two others
C20_Witness ==
  /\ AllPeersDone
  /\ Cardinality(peers) = 3
  /\ sharedTotal = 101
  /\ \A m \in members : m.labels = "parking-api"
  /\ \E p \in peers :
       /\ peerKind[p] = "network"
       /\ peerRange[p] = [ startIndex |-> 1, endIndex |-> 101 ]
       /\ \A q \in peers \ {p} :
            /\ peerKind[q] = "ok"
            /\ peerDetails[q].podCount = 3
            /\ IndexSet(peerRange[q]) \subseteq IndexSet(peerRange[p])
            /\ IndexSet(peerRange[q]) # {}

====
